---- MODULE Spec2Model ----
(***************************************************************************)
(* Model of the two batch scripts of the repository:                       *)
(*   create_stops_by_commune.py  - counts transit stops per commune with a *)
(*                                 spatial join (containment, then nearest *)
(*                                 fallback) and an aggregation;           *)
(*   siretApiCall.py             - harvests a paginated API with a cursor. *)
(* Geometry is modelled on an integer lon/lat grid with axis-aligned       *)
(* rectangles as commune polygons; "within" is the strict interior and     *)
(* distances are compared through their squares.                           *)
(***************************************************************************)
EXTENDS Integers, Sequences, FiniteSets, TLC

\* ------------------------------------------------------------------------
\* Bounds
\* ------------------------------------------------------------------------
\* number of rows of the stops CSV
MaxStops == 3
\* number of chunks the boundary download is streamed in
MaxChunks == 2
\* number of data pages the API serves before its empty page
MaxPages == 2
\* number of requests get_with_cursor is followed for
MaxRequests == 12

\* ------------------------------------------------------------------------
\* Generic helpers on sequences
\* ------------------------------------------------------------------------
Range(s) == {s[i] : i \in DOMAIN s}

RECURSIVE Flatten(_)
Flatten(ss) == IF ss = <<>> THEN <<>> ELSE Head(ss) \o Flatten(Tail(ss))

RECURSIVE SelectSeqIdx(_, _)
\* the sub-sequence of s at the positions (in increasing order) of set idx
SelectSeqIdx(s, idx) ==
    IF s = <<>> THEN <<>>
    ELSE LET n == Len(s)
             front == SelectSeqIdx(SubSeq(s, 1, n - 1), idx)
         IN IF n \in idx THEN Append(front, s[n]) ELSE front

RECURSIVE SumSeq(_)
SumSeq(s) == IF s = <<>> THEN 0 ELSE Head(s) + SumSeq(Tail(s))

HasDuplicates(s) == \E i, j \in DOMAIN s : i # j /\ s[i] = s[j]

\* ------------------------------------------------------------------------
\* Inputs: the boundary file and the stops CSV
\* ------------------------------------------------------------------------
\* a commune feature: identifier, name and a rectangle [x1,x2] x [y1,y2].
\* Paris and Melun share the border x = 5; Creil overlaps both.
Creil      == [code |-> <<"6","0","1","7","5">>, nom |-> "Creil",
               x1 |-> 3, x2 |-> 7, y1 |-> 45, y2 |-> 49]
Paris      == [code |-> <<"7","5","0","5","6">>, nom |-> "Paris",
               x1 |-> 1, x2 |-> 5, y1 |-> 46, y2 |-> 50]
Melun      == [code |-> <<"7","7","2","8","8">>, nom |-> "Melun",
               x1 |-> 5, x2 |-> 8, y1 |-> 46, y2 |-> 50]
BasseTerre == [code |-> <<"9","7","1","0","5">>, nom |-> "Basse-Terre",
               x1 |-> 0 - 62, x2 |-> 0 - 60, y1 |-> 15, y2 |-> 17]
ShortCode  == [code |-> <<"9","7">>, nom |-> "Outre-mer",
               x1 |-> 0 - 62, x2 |-> 0 - 60, y1 |-> 15, y2 |-> 17]

\* the column lists a boundary file may carry
ColsCodeNom == <<"code", "nom", "geometry">>
ColsCodeOnly == <<"code", "geometry">>
ColsInsee == <<"insee", "nom", "geometry">>
ColsUpper == <<"CODE", "NOM", "geometry">>
ColsNoId == <<"id", "nom", "geometry">>

\* the boundary files of the model: columns and features (listed in
\* identifier order)
BoundaryFiles ==
    { [cols |-> ColsCodeNom, features |-> f] :
        f \in { <<Paris, Melun>>, <<Creil, Paris, Melun>>,
                <<Paris, Melun, BasseTerre>>, <<Paris, ShortCode>> } }
    \cup
    { [cols |-> c, features |-> <<Paris, Melun>>] :
        c \in {ColsCodeOnly, ColsInsee, ColsUpper, ColsNoId} }

\* a CSV cell is <<v>> when it holds the number v and << >> when it is empty
CsvRow(lon, lat) == [stop_lon |-> lon, stop_lat |-> lat]

CsvRows ==
    { CsvRow(<<2>>, <<48>>),          \* inside Paris only
      CsvRow(<<4>>, <<48>>),          \* inside Paris and inside Creil
      CsvRow(<<5>>, <<48>>),          \* on the Paris/Melun border, inside Creil
      CsvRow(<<9>>, <<51>>),          \* in no commune, nearest to Melun
      CsvRow(<<0>>, <<0>>),           \* degenerate coordinates
      CsvRow(<<12>>, <<48>>),         \* east of the bounding box
      CsvRow(<<0 - 61>>, <<16>>),     \* overseas, outside the bounding box
      CsvRow(<<2>>, << >>) }          \* latitude missing

RECURSIVE SeqsUpTo(_, _)
SeqsUpTo(S, n) ==
    IF n = 0 THEN {<<>>}
    ELSE LET shorter == SeqsUpTo(S, n - 1)
         IN shorter \cup {Append(s, e) : s \in {t \in shorter : Len(t) = n - 1}, e \in S}

CsvFiles == SeqsUpTo(CsvRows, MaxStops) \ {<<>>}

\* ------------------------------------------------------------------------
\* State of one run of create_stops_by_commune.py
\* ------------------------------------------------------------------------
VARIABLES
    pc,              \* position of main
    err,             \* the exception that ended the run, "" when none
    console,         \* the error reports printed
    boundary,        \* what the boundary source holds (columns, features)
    csv,             \* rows of accessibilite-brute.csv
    initialFile,     \* TRUE when COMMUNES_FILE existed when the run began
    communesFile,    \* "absent", "original", "partial" or "downloaded"
    chunks,          \* chunks written to COMMUNES_FILE by this run
    fetches,         \* HTTP GET requests issued by this run
    communes,        \* the loaded boundary GeoDataFrame (columns, features)
    stops,           \* the rows load_stops kept
    stops_gdf,       \* stops with their point geometry
    joined,          \* the table spatial_join builds
    n_unmatched,     \* statistic of spatial_join, -1 while not computed
    n_invalid,       \* statistic of spatial_join, -1 while not computed
    unmatched_valid, \* index labels handed to sjoin_nearest
    result,          \* rows returned by count_stops_by_commune
    outputFile       \* arrets_par_commune.csv: whether it exists, its rows

\* ------------------------------------------------------------------------
\* State of one run of siretApiCall.py
\* ------------------------------------------------------------------------
VARIABLES
    api,             \* the pages the API serves, then its empty page
    cpc,             \* position of get_with_cursor
    cursor,          \* the cursor variable
    response,        \* the last decoded response
    i,               \* the request counter
    requests,        \* cursors of the requests issued, in order
    slept,           \* number of rate-limit pauses
    data3            \* lines of data3.csv

pipelineVars == <<pc, err, console, boundary, csv, initialFile, communesFile,
                  chunks, fetches, communes, stops, stops_gdf, joined,
                  n_unmatched, n_invalid, unmatched_valid, result, outputFile>>
cursorVars == <<api, cpc, cursor, response, i, requests, slept, data3>>
vars == <<pipelineVars, cursorVars>>

\* ------------------------------------------------------------------------
\* Geometry
\* ------------------------------------------------------------------------
\* shapely Point(x, y)
Point(x, y) == [x |-> x, y |-> y]

\* predicate='within': the point lies in the interior of the polygon
Within(p, c) == c.x1 < p.x /\ p.x < c.x2 /\ c.y1 < p.y /\ p.y < c.y2

\* square of the distance between a point and a (closed) polygon
Dist2(p, c) ==
    LET dx == IF p.x < c.x1 THEN c.x1 - p.x
              ELSE IF p.x > c.x2 THEN p.x - c.x2 ELSE 0
        dy == IF p.y < c.y1 THEN c.y1 - p.y
              ELSE IF p.y > c.y2 THEN p.y - c.y2 ELSE 0
    IN dx * dx + dy * dy

\* the positions idx of the features of right, in order
Matching(right, idx) == SelectSeqIdx([n \in DOMAIN right |-> n], idx)

\* a row of the joined table: the index label of the stop and the commune
\* attributes it carries (position of the feature, 0 when they are NaN)
JoinedRow(label, commune) == [label |-> label, commune |-> commune]

\* gpd.sjoin(left, right, how='left', predicate='within'): one row per
\* containing polygon, one row with NaN attributes when there is none
sjoin(left, right) ==
    Flatten([k \in DOMAIN left |->
        LET m == Matching(right, {n \in DOMAIN right : Within(left[k].geometry, right[n])})
        IN IF m = <<>> THEN <<JoinedRow(left[k].label, 0)>>
           ELSE [n \in DOMAIN m |-> JoinedRow(left[k].label, m[n])]])

\* gpd.sjoin_nearest(left, right, how='left'): one row per polygon at
\* minimum distance (all of them when several are equidistant)
sjoin_nearest(left, right) ==
    Flatten([k \in DOMAIN left |->
        LET p == left[k].geometry
            m == Matching(right, {n \in DOMAIN right :
                    \A o \in DOMAIN right : Dist2(p, right[n]) <= Dist2(p, right[o])})
        IN [n \in DOMAIN m |-> JoinedRow(left[k].label, m[n])]])

\* columns of the stops table and of the result of sjoin (the column names
\* of the model never collide, so no _left/_right suffix appears)
StopColumns == <<"stop_lon", "stop_lat", "geometry">>

LAMBDA_notGeometry(col) == col # "geometry"

JoinedColumns(cols) ==
    StopColumns \o <<"index_right">> \o SelectSeq(cols, LAMBDA_notGeometry)

Labels(frame) == [k \in DOMAIN frame |-> frame[k].label]

\* ------------------------------------------------------------------------
\* pandas indexing as spatial_join uses it
\* ------------------------------------------------------------------------
\* positions of the rows of frame labelled label, in order
PositionsOf(frame, label) ==
    SelectSeqIdx([k \in DOMAIN frame |-> k], {k \in DOMAIN frame : frame[k].label = label})

\* frame[mask] for a boolean Series mask whose index maskLabels differs
\* from the index of frame, in a pandas whose check_bool_indexer aligns the
\* mask with reindex: duplicate labels cannot be reindexed
getitem_bool_reindex(frame, maskLabels, mask) ==
    IF HasDuplicates(maskLabels)
    THEN [err |-> "ValueError", rows |-> <<>>]
    ELSE [err |-> "",
          rows |-> SelectSeqIdx(frame, {k \in DOMAIN frame :
                      \E n \in DOMAIN mask : maskLabels[n] = frame[k].label /\ mask[n]})]

\* the same in a pandas whose check_bool_indexer aligns the mask with
\* get_indexer_for and take: every position of each label of frame is
\* taken from the mask, and the positions of the True entries of the taken
\* mask are then read in frame (out of bounds raises)
getitem_bool_take(frame, maskLabels, mask) ==
    LET maskFrame == [n \in DOMAIN mask |-> [label |-> maskLabels[n]]]
        indexer == Flatten([k \in DOMAIN frame |-> PositionsOf(maskFrame, frame[k].label)])
        taken == [n \in DOMAIN indexer |-> mask[indexer[n]]]
        nonzero == {n \in DOMAIN taken : taken[n]}
    IN IF \E n \in nonzero : n > Len(frame)
       THEN [err |-> "IndexError", rows |-> <<>>]
       ELSE [err |-> "", rows |-> SelectSeqIdx(frame, nonzero)]

\* frame[mask] for a boolean Series mask: the outcomes the installed
\* library can produce (both agree when the two indexes are equal)
getitem_bool(frame, maskLabels, mask) ==
    IF maskLabels = Labels(frame)
    THEN {[err |-> "", rows |-> SelectSeqIdx(frame, {k \in DOMAIN frame : mask[k]})]}
    ELSE {getitem_bool_reindex(frame, maskLabels, mask),
          getitem_bool_take(frame, maskLabels, mask)}

\* for col in communes_gdf.columns: table.loc[values.index, col] = values[col]
\* The rows of table labelled as the rows of values receive their commune
\* attributes.  When the labels selected in table are exactly values.index
\* the values are written by position (a position written several times
\* keeps one of the values); otherwise values is reindexed on the selected
\* labels, which fails when values.index holds a label twice.
loc_assign(table, values) ==
    LET keys == Labels(values)
        positions == Flatten([n \in DOMAIN keys |-> PositionsOf(table, keys[n])])
        new_ix == [n \in DOMAIN positions |-> table[positions[n]].label]
        written == Range(positions)
        byPosition(k) == {values[n].commune : n \in {m \in DOMAIN positions : positions[m] = k}}
        byLabel(k) == {values[n].commune : n \in {m \in DOMAIN values : values[m].label = table[k].label}}
        candidates(k) == IF new_ix = keys THEN byPosition(k) ELSE byLabel(k)
    IN IF new_ix # keys /\ HasDuplicates(keys)
       THEN {[err |-> "ValueError", table |-> table]}
       ELSE {[err |-> "",
              table |-> [k \in DOMAIN table |->
                            IF k \in written
                            THEN JoinedRow(table[k].label, f[k])
                            ELSE table[k]]] :
             f \in {g \in [written -> UNION {candidates(k) : k \in written}] :
                        \A k \in written : g[k] \in candidates(k)}}

\* valid_coords_mask of spatial_join
valid_coords(p) ==
    /\ p.x # 0
    /\ p.y # 0
    /\ p.y >= 41
    /\ p.y <= 52
    /\ p.x >= 0 - 6
    /\ p.x <= 10

\* ------------------------------------------------------------------------
\* count_stops_by_commune
\* ------------------------------------------------------------------------
CodeAliases == {"code", "code_insee", "codgeo", "insee"}
NomAliases == {"nom", "name", "libelle", "nom_commune"}

\* col.lower() on the column names of the model
Lower(col) ==
    CASE col = "CODE" -> "code"
      [] col = "NOM" -> "nom"
      [] OTHER -> col

RECURSIVE find_col(_, _)
\* the loop over joined_gdf.columns: the last column whose lower-cased name
\* is an alias, "" (None) when there is none
find_col(cols, aliases) ==
    IF cols = <<>> THEN ""
    ELSE LET last == cols[Len(cols)]
         IN IF Lower(last) \in aliases THEN last
            ELSE find_col(SubSeq(cols, 1, Len(cols) - 1), aliases)

\* python s[:n]
Slice(s, n) == SubSeq(s, 1, IF Len(s) < n THEN Len(s) ELSE n)

\* python s.startswith(prefix)
startswith(s, prefix) == Len(s) >= Len(prefix) /\ SubSeq(s, 1, Len(prefix)) = prefix

\* get_dept_code without its overseas branch
get_dept_code_no_overseas(code_str) == Slice(code_str, 2)

get_dept_code(code_str) ==
    IF startswith(code_str, <<"9", "7">>) \/ startswith(code_str, <<"9", "8">>)
    THEN Slice(code_str, 3)
    ELSE Slice(code_str, 2)

\* value of column col in the commune attributes of feature k
Cell(features, k, col) ==
    IF Lower(col) \in CodeAliases THEN features[k].code ELSE features[k].nom

\* rows.groupby(by).size(): one group per distinct key, in key order (the
\* features are listed in identifier order), with the number of its rows
groupby_size(features, rows, by) ==
    LET keyOf(k) == [n \in DOMAIN by |-> Cell(features, k, by[n])]
        present == {k \in DOMAIN features : \E r \in DOMAIN rows : rows[r].commune = k}
        firsts == {k \in present : \A j \in present : keyOf(j) = keyOf(k) => j >= k}
        order == SelectSeqIdx([k \in DOMAIN features |-> k], firsts)
    IN [n \in DOMAIN order |->
          [first |-> order[n],
           size |-> Cardinality({r \in DOMAIN rows : keyOf(rows[r].commune) = keyOf(order[n])})]]

\* a row of the result, in the column order of the output file
ResultRow(code, nom, size) ==
    [code_dept_commune |-> get_dept_code(code) \o <<"-">> \o code,
     code_departement |-> get_dept_code(code),
     code_commune_INSEE |-> code,
     nom_commune |-> nom,
     nb_arrets |-> size]

RECURSIVE sort_values_ascending(_)
\* sort_values with ascending=True
sort_values_ascending(rows) ==
    IF rows = <<>> THEN <<>>
    ELSE LET r == Head(rows)
             rest == sort_values_ascending(Tail(rows))
             p == Cardinality({j \in DOMAIN rest : rest[j].nb_arrets < r.nb_arrets})
         IN SubSeq(rest, 1, p) \o <<r>> \o SubSeq(rest, p + 1, Len(rest))

RECURSIVE sort_values(_)
\* result.sort_values('nb_arrets', ascending=False); rows of equal count
\* keep their relative order
sort_values(rows) ==
    IF rows = <<>> THEN <<>>
    ELSE LET r == Head(rows)
             rest == sort_values(Tail(rows))
             p == Cardinality({j \in DOMAIN rest : rest[j].nb_arrets > r.nb_arrets})
         IN SubSeq(rest, 1, p) \o <<r>> \o SubSeq(rest, p + 1, Len(rest))

\* the rows count_stops_by_commune returns for a joined table whose
\* identifier column is code_col and whose name column is nom_col
aggregate(features, table, code_col, nom_col) ==
    LET LAMBDA_notna(row) == row.commune # 0
        kept == SelectSeq(table, LAMBDA_notna)
        by == IF nom_col # "" THEN <<code_col, nom_col>> ELSE <<code_col>>
        groups == groupby_size(features, kept, by)
    IN sort_values([n \in DOMAIN groups |->
          ResultRow(Cell(features, groups[n].first, code_col),
                    IF nom_col # "" THEN Cell(features, groups[n].first, nom_col) ELSE "",
                    groups[n].size)])

\* ------------------------------------------------------------------------
\* main of create_stops_by_commune.py, one action per step
\* ------------------------------------------------------------------------
NoFrame == [cols |-> <<>>, features |-> <<>>]
NoFile == [exists |-> FALSE, rows |-> <<>>]

PipelineInit ==
    /\ pc = "download"
    /\ err = ""
    /\ console = {}
    /\ boundary \in BoundaryFiles
    /\ csv \in CsvFiles
    /\ initialFile \in BOOLEAN
    /\ communesFile = IF initialFile THEN "original" ELSE "absent"
    /\ chunks = 0
    /\ fetches = 0
    /\ communes = NoFrame
    /\ stops = <<>>
    /\ stops_gdf = <<>>
    /\ joined = <<>>
    /\ n_unmatched = 0 - 1
    /\ n_invalid = 0 - 1
    /\ unmatched_valid = <<>>
    /\ result = <<>>
    /\ outputFile = NoFile

\* an uncaught exception ends the run
Raise(e) == pc' = "raised" /\ err' = e

\* download_communes() with a handler that reports the failure and does
\* not return
download_communes_no_return ==
    /\ pc = "download"
    /\ IF communesFile # "absent"
       THEN /\ pc' = "read_file"
            /\ UNCHANGED <<communesFile, chunks, fetches, console>>
       ELSE /\ fetches' = fetches + 1
            /\ \/ /\ pc' = "read_file"
                  /\ console' = console \cup {"download_error", "manual_download"}
                  /\ UNCHANGED <<communesFile, chunks>>
               \/ \E n \in 0..(MaxChunks - 1) :
                     /\ pc' = "read_file"
                     /\ console' = console \cup {"download_error", "manual_download"}
                     /\ communesFile' = "partial"
                     /\ chunks' = n
               \/ \E n \in 0..MaxChunks :
                     /\ pc' = "read_file"
                     /\ communesFile' = "downloaded"
                     /\ chunks' = n
                     /\ UNCHANGED console
    /\ UNCHANGED <<err, boundary, csv, initialFile, communes, stops, stops_gdf,
                   joined, n_unmatched, n_invalid, unmatched_valid, result,
                   outputFile, cursorVars>>

\* main, step 1: download_communes() and the handler of its exceptions
download_communes ==
    /\ pc = "download"
    /\ IF communesFile # "absent"
       THEN /\ pc' = "read_file"
            /\ UNCHANGED <<communesFile, chunks, fetches, console>>
       ELSE /\ fetches' = fetches + 1
            /\ \/ \* requests.get or raise_for_status raises
                  /\ pc' = "aborted"
                  /\ console' = console \cup {"download_error", "manual_download"}
                  /\ UNCHANGED <<communesFile, chunks>>
               \/ \* iter_content raises after n chunks were written
                  \E n \in 0..(MaxChunks - 1) :
                     /\ pc' = "aborted"
                     /\ console' = console \cup {"download_error", "manual_download"}
                     /\ communesFile' = "partial"
                     /\ chunks' = n
               \/ \* the whole body is received
                  \E n \in 0..MaxChunks :
                     /\ pc' = "read_file"
                     /\ communesFile' = "downloaded"
                     /\ chunks' = n
                     /\ UNCHANGED console
    /\ UNCHANGED <<err, boundary, csv, initialFile, communes, stops, stops_gdf,
                   joined, n_unmatched, n_invalid, unmatched_valid, result,
                   outputFile, cursorVars>>

\* main, step 2: gpd.read_file(COMMUNES_FILE)
read_file ==
    /\ pc = "read_file"
    /\ communes' = boundary
    /\ pc' = "load_stops"
    /\ UNCHANGED <<err, console, boundary, csv, initialFile, communesFile,
                   chunks, fetches, stops, stops_gdf, joined, n_unmatched,
                   n_invalid, unmatched_valid, result, outputFile, cursorVars>>

\* pd.read_csv: the rows with their index labels, then dropna on both
\* coordinates
dropna_coords(rows) ==
    LET frame == [k \in DOMAIN rows |->
                    [label |-> k - 1, stop_lon |-> rows[k].stop_lon,
                     stop_lat |-> rows[k].stop_lat]]
    IN SelectSeqIdx(frame, {k \in DOMAIN frame :
                               frame[k].stop_lat # <<>> /\ frame[k].stop_lon # <<>>})

\* main, step 3
load_stops ==
    /\ pc = "load_stops"
    /\ stops' = dropna_coords(csv)
    /\ pc' = "create_gdf"
    /\ UNCHANGED <<err, console, boundary, csv, initialFile, communesFile,
                   chunks, fetches, communes, stops_gdf, joined, n_unmatched,
                   n_invalid, unmatched_valid, result, outputFile, cursorVars>>

\* main, step 4
create_stops_geodataframe ==
    /\ pc = "create_gdf"
    /\ stops_gdf' = [k \in DOMAIN stops |->
                        [label |-> stops[k].label,
                         geometry |-> Point(stops[k].stop_lon[1], stops[k].stop_lat[1])]]
    /\ pc' = "sjoin"
    /\ UNCHANGED <<err, console, boundary, csv, initialFile, communesFile,
                   chunks, fetches, communes, stops, joined, n_unmatched,
                   n_invalid, unmatched_valid, result, outputFile, cursorVars>>

\* main, step 5, first part of spatial_join: the containment join and the
\* unmatched mask read from column 'code'
spatial_join_within ==
    /\ pc = "sjoin"
    /\ joined' = sjoin(stops_gdf, communes.features)
    /\ IF "code" \notin Range(JoinedColumns(communes.cols))
       THEN /\ Raise("KeyError")
            /\ UNCHANGED n_unmatched
       ELSE /\ n_unmatched' = Cardinality({k \in DOMAIN joined' : joined'[k].commune = 0})
            /\ pc' = IF n_unmatched' > 0 THEN "nearest" ELSE "count"
            /\ UNCHANGED err
    /\ UNCHANGED <<console, boundary, csv, initialFile, communesFile, chunks,
                   fetches, communes, stops, stops_gdf, n_invalid,
                   unmatched_valid, result, outputFile, cursorVars>>

\* main, step 5, second part of spatial_join (n_unmatched > 0): the
\* valid-region filter, the nearest join and the merge
spatial_join_nearest ==
    /\ pc = "nearest"
    /\ LET unmatched_mask == [k \in DOMAIN joined |-> joined[k].commune = 0]
       IN \E sel \in getitem_bool(stops_gdf, Labels(joined), unmatched_mask) :
            IF sel.err # ""
            THEN /\ Raise(sel.err)
                 /\ UNCHANGED <<joined, n_invalid, unmatched_valid>>
            ELSE LET unmatched_stops == sel.rows
                     valid == {k \in DOMAIN unmatched_stops :
                                  valid_coords(unmatched_stops[k].geometry)}
                     valid_rows == SelectSeqIdx(unmatched_stops, valid)
                 IN /\ n_invalid' = Cardinality(DOMAIN unmatched_stops \ valid)
                    /\ unmatched_valid' = Labels(valid_rows)
                    /\ IF Len(valid_rows) > 0
                       THEN \E merged \in loc_assign(joined,
                                   sjoin_nearest(valid_rows, communes.features)) :
                               IF merged.err # ""
                               THEN Raise(merged.err) /\ UNCHANGED joined
                               ELSE /\ joined' = merged.table
                                    /\ pc' = "count"
                                    /\ UNCHANGED err
                       ELSE /\ pc' = "count"
                            /\ UNCHANGED <<err, joined>>
    /\ UNCHANGED <<console, boundary, csv, initialFile, communesFile, chunks,
                   fetches, communes, stops, stops_gdf, n_unmatched, result,
                   outputFile, cursorVars>>

\* main, step 6
count_stops_by_commune ==
    /\ pc = "count"
    /\ LET columns == JoinedColumns(communes.cols)
           code_col == find_col(columns, CodeAliases)
           nom_col == find_col(columns, NomAliases)
       IN IF code_col = ""
          THEN /\ console' = console \cup {"available_columns"}
               /\ Raise("ValueError")
               /\ UNCHANGED result
          ELSE /\ result' = aggregate(communes.features, joined, code_col, nom_col)
               /\ pc' = "to_csv"
               /\ UNCHANGED <<err, console>>
    /\ UNCHANGED <<boundary, csv, initialFile, communesFile, chunks, fetches,
                   communes, stops, stops_gdf, joined, n_unmatched, n_invalid,
                   unmatched_valid, outputFile, cursorVars>>

\* main, step 7
to_csv ==
    /\ pc = "to_csv"
    /\ outputFile' = [exists |-> TRUE, rows |-> result]
    /\ pc' = "stats"
    /\ UNCHANGED <<err, console, boundary, csv, initialFile, communesFile,
                   chunks, fetches, communes, stops, stops_gdf, joined,
                   n_unmatched, n_invalid, unmatched_valid, result, cursorVars>>

\* main, the closing statistics: the matching rate divides by len(stops)
\* and the last line reads result.iloc[0]
print_stats ==
    /\ pc = "stats"
    /\ IF Len(stops) = 0 THEN Raise("ZeroDivisionError")
       ELSE IF Len(result) = 0 THEN Raise("IndexError")
       ELSE pc' = "done" /\ UNCHANGED err
    /\ UNCHANGED <<console, boundary, csv, initialFile, communesFile, chunks,
                   fetches, communes, stops, stops_gdf, joined, n_unmatched,
                   n_invalid, unmatched_valid, result, outputFile, cursorVars>>

\* ------------------------------------------------------------------------
\* siretApiCall.py
\* ------------------------------------------------------------------------
\* an element of response['etablissements']
Etablissement(activite, code, libelle) ==
    [periodesEtablissement |-> <<[activitePrincipaleEtablissement |-> activite]>>,
     adresseEtablissement |-> [codeCommuneEtablissement |-> code,
                               libelleCommuneEtablissement |-> libelle]]

Etablissements ==
    { Etablissement("47.11F", "75056", "PARIS"),
      Etablissement("56.10A", "77288", "MELUN") }

\* the data pages an API may hold
ApiPages == SeqsUpTo(SeqsUpTo(Etablissements, 2) \ {<<>>}, MaxPages) \ {<<>>}

\* the decoded body the API returns for a cursor: cursor k (the initial
\* cursor '' is 0) designates the page after the first k pages; past the
\* last page the header reports nombre = 0 and no record is returned
ApiGet(pages, c) ==
    IF c < Len(pages)
    THEN [header |-> [nombre |-> Len(pages[c + 1]), curseurSuivant |-> c + 1],
          etablissements |-> pages[c + 1]]
    ELSE [header |-> [nombre |-> 0, curseurSuivant |-> c],
          etablissements |-> <<>>]

\* d.get(key) != value for a number value: None differs from every number
get_differs(d, key, value) ==
    IF key \in DOMAIN d THEN d[key] # value ELSE TRUE

HeaderLine == <<"activitePrincipaleEtablissement", "codeCommuneEtablissement",
                "libelleCommuneEtablissement">>

\* the lines transformation appends to data3.csv
transformation(json_data, header) ==
    (IF header THEN <<HeaderLine>> ELSE <<>>)
    \o [k \in DOMAIN json_data |->
          <<json_data[k].periodesEtablissement[1].activitePrincipaleEtablissement,
            json_data[k].adresseEtablissement.codeCommuneEtablissement,
            json_data[k].adresseEtablissement.libelleCommuneEtablissement>>]

NoResponse == [header |-> [nombre |-> 0 - 1, curseurSuivant |-> 0],
               etablissements |-> <<>>]

CursorInit ==
    /\ api \in ApiPages
    /\ cpc = "start"
    /\ cursor = 0
    /\ response = NoResponse
    /\ i = 0
    /\ requests = <<>>
    /\ slept = 0
    /\ data3 = <<>>

\* get_with_cursor up to its loop: the initial request, the counter, the
\* next cursor and the first page written under the header line
first_request ==
    /\ cpc = "start"
    /\ requests' = Append(requests, 0)
    /\ response' = ApiGet(api, 0)
    /\ i' = 17090
    /\ cursor' = response'.header.curseurSuivant
    /\ data3' = data3 \o transformation(response'.etablissements, TRUE)
    /\ cpc' = "loop"
    /\ UNCHANGED <<api, slept, pipelineVars>>

\* one evaluation of the while condition, and one pass of the loop body
\* when it holds
next_request ==
    /\ cpc = "loop"
    /\ IF get_differs(response, "nombre", 0)
       THEN /\ Len(requests) < MaxRequests
            /\ slept' = IF i % 30 = 0 THEN slept + 1 ELSE slept
            /\ requests' = Append(requests, cursor)
            /\ response' = ApiGet(api, cursor)
            /\ i' = i + 1
            /\ cursor' = response'.header.curseurSuivant
            /\ data3' = data3 \o transformation(response'.etablissements, FALSE)
            /\ UNCHANGED cpc
       ELSE /\ cpc' = "returned"
            /\ UNCHANGED <<cursor, response, i, requests, slept, data3>>
    /\ UNCHANGED <<api, pipelineVars>>

\* ------------------------------------------------------------------------
\* Specifications
\* ------------------------------------------------------------------------
\* the idle state of the script that a specification does not run
PipelineIdle ==
    /\ pc = "idle" /\ err = "" /\ console = {}
    /\ boundary = NoFrame /\ csv = <<>> /\ initialFile = FALSE
    /\ communesFile = "absent" /\ chunks = 0 /\ fetches = 0
    /\ communes = NoFrame /\ stops = <<>> /\ stops_gdf = <<>> /\ joined = <<>>
    /\ n_unmatched = 0 - 1 /\ n_invalid = 0 - 1 /\ unmatched_valid = <<>>
    /\ result = <<>> /\ outputFile = NoFile

CursorIdle ==
    /\ api = <<>> /\ cpc = "idle" /\ cursor = 0 /\ response = NoResponse
    /\ i = 0 /\ requests = <<>> /\ slept = 0 /\ data3 = <<>>

\* one run of create_stops_by_commune.py
Init == PipelineInit /\ CursorIdle

Next ==
    \/ download_communes
    \/ read_file
    \/ load_stops
    \/ create_stops_geodataframe
    \/ spatial_join_within
    \/ spatial_join_nearest
    \/ count_stops_by_commune
    \/ to_csv
    \/ print_stats

Spec == Init /\ [][Next]_vars

\* one run of siretApiCall.py
InitCursor == PipelineIdle /\ CursorInit

NextCursor ==
    \/ first_request
    \/ next_request

SpecCursor == InitCursor /\ [][NextCursor]_vars

\* ------------------------------------------------------------------------
\* Vocabulary of the properties
\* ------------------------------------------------------------------------
\* spatial_join has returned
JoinReturned == pc \in {"count", "to_csv", "stats", "done"} \/ (pc = "raised" /\ outputFile.exists)

\* count_stops_by_commune has returned
Aggregated == pc \in {"to_csv", "stats", "done"} \/ (pc = "raised" /\ outputFile.exists)

\* the run has ended after the boundary data was loaded
Ended == pc \in {"raised", "done"}

\* the stop was matched by containment in phase 1
MatchedWithin(stop) == \E n \in DOMAIN communes.features : Within(stop.geometry, communes.features[n])

\* the commune attributes the rows of the stop carry in a joined table
CommunesOf(table, stop) ==
    {table[k].commune : k \in {j \in DOMAIN table : table[j].label = stop.label}} \ {0}

\* the rows of the stop in a joined table, in order
RowsOf(table, stop) ==
    SelectSeqIdx(table, {k \in DOMAIN table : table[k].label = stop.label})

\* the identifier starts with one of the two overseas prefixes
Overseas(code) == startswith(code, <<"9", "7">>) \/ startswith(code, <<"9", "8">>)

Min(a, b) == IF a < b THEN a ELSE b

\* ------------------------------------------------------------------------
\* Properties
\* ------------------------------------------------------------------------
\* C1: every output row's count is the number of input stops resolved to
\* the row's identifier, no identifier is split over several rows and no
\* stop is counted more than once.
C1_CountsMatchResolvedStops ==
    Aggregated =>
        /\ \A r \in DOMAIN result :
              result[r].nb_arrets =
                 Cardinality({s \in DOMAIN stops_gdf :
                    \E n \in CommunesOf(joined, stops_gdf[s]) :
                       communes.features[n].code = result[r].code_commune_INSEE})
        /\ \A r1, r2 \in DOMAIN result :
              result[r1].code_commune_INSEE = result[r2].code_commune_INSEE => r1 = r2
        /\ \A s \in DOMAIN stops_gdf :
              Len(SelectSeq(RowsOf(joined, stops_gdf[s]), LAMBDA row : row.commune # 0)) <= 1

\* C2: the sum of the output counts is at most the number of stops that
\* load_stops kept.
C2_SumAtMostStops ==
    Aggregated =>
        SumSeq([r \in DOMAIN result |-> result[r].nb_arrets]) <= Len(stops)

\* C3: every stop that phase 1 left unmatched and whose coordinates pass
\* the valid-region filter leaves spatial_join with the attributes of a
\* polygon at minimum distance and has that polygon's row in the output.
C3_UnmatchedValidGetsNearest ==
    Aggregated =>
        \A s \in DOMAIN stops_gdf :
            (~MatchedWithin(stops_gdf[s]) /\ valid_coords(stops_gdf[s].geometry)) =>
                \E n \in CommunesOf(joined, stops_gdf[s]) :
                    /\ \A m \in DOMAIN communes.features :
                          Dist2(stops_gdf[s].geometry, communes.features[n])
                             <= Dist2(stops_gdf[s].geometry, communes.features[m])
                    /\ \E r \in DOMAIN result :
                          /\ result[r].code_commune_INSEE = communes.features[n].code
                          /\ result[r].nb_arrets >= 1

\* C4: every stop that phase 1 left unmatched and whose coordinates fail
\* the valid-region filter is kept out of the nearest join, is counted in
\* n_invalid, carries no commune attributes and is in no output row.
C4_UnmatchedInvalidExcluded ==
    LET invalid == {s \in DOMAIN stops_gdf :
                       ~MatchedWithin(stops_gdf[s]) /\ ~valid_coords(stops_gdf[s].geometry)}
    IN JoinReturned =>
          /\ invalid # {} => n_invalid = Cardinality(invalid)
          /\ \A s \in invalid :
                /\ stops_gdf[s].label \notin Range(unmatched_valid)
                /\ CommunesOf(joined, stops_gdf[s]) = {}
          /\ Aggregated =>
                \A r \in DOMAIN result :
                   result[r].nb_arrets =
                      Cardinality({k \in DOMAIN joined :
                         /\ joined[k].commune # 0
                         /\ communes.features[joined[k].commune].code
                               = result[r].code_commune_INSEE
                         /\ \A s \in invalid : joined[k].label # stops_gdf[s].label})

\* C5: in every output row the composite key is prefix, "-", identifier;
\* the prefix is the first 3 characters of an overseas identifier and the
\* first 2 characters of any other, and so has length 3 and 2.
C5_PrefixLength3Or2 ==
    Aggregated =>
        \A r \in DOMAIN result :
            LET id == result[r].code_commune_INSEE
                prefix == result[r].code_departement
            IN /\ result[r].code_dept_commune = prefix \o <<"-">> \o id
               /\ Overseas(id) => prefix = Slice(id, 3) /\ Len(prefix) = 3
               /\ ~Overseas(id) => prefix = Slice(id, 2) /\ Len(prefix) = 2

\* C5 as amended: the prefix is the first 3 (overseas) or first 2 (other)
\* characters of the identifier, hence of length 3 and 2 only when the
\* identifier is that long, and the whole identifier when it is shorter.
C5_PrefixIsLeadingSlice ==
    Aggregated =>
        \A r \in DOMAIN result :
            LET id == result[r].code_commune_INSEE
                prefix == result[r].code_departement
            IN /\ result[r].code_dept_commune = prefix \o <<"-">> \o id
               /\ Overseas(id) => prefix = Slice(id, 3) /\ Len(prefix) = Min(3, Len(id))
               /\ ~Overseas(id) => prefix = Slice(id, 2) /\ Len(prefix) = Min(2, Len(id))

\* an output holding an overseas identifier shorter than 3 characters next
\* to a mainland identifier
C5_Witness ==
    /\ Aggregated
    /\ \E r \in DOMAIN result : result[r].code_departement = <<"7", "5">>
    /\ \E r \in DOMAIN result :
          /\ Overseas(result[r].code_commune_INSEE)
          /\ Len(result[r].code_commune_INSEE) < 3

\* C6: the rows returned by count_stops_by_commune, and the rows written to
\* the output file, are in non-increasing order of count.
C6_SortedByCountDescending ==
    /\ Aggregated =>
          \A r \in 1..(Len(result) - 1) : result[r].nb_arrets >= result[r + 1].nb_arrets
    /\ outputFile.exists =>
          /\ outputFile.rows = result
          /\ \A r \in 1..(Len(outputFile.rows) - 1) :
                outputFile.rows[r].nb_arrets >= outputFile.rows[r + 1].nb_arrets

\* an output file whose first row is the commune that comes second in
\* identifier order, with a strictly larger count
C6_Witness ==
    /\ outputFile.exists
    /\ Len(outputFile.rows) >= 2
    /\ outputFile.rows[1].code_commune_INSEE = Melun.code
    /\ outputFile.rows[2].code_commune_INSEE = Paris.code
    /\ outputFile.rows[1].nb_arrets > outputFile.rows[2].nb_arrets

\* C7: when the boundary data has no column whose lower-cased name is an
\* identifier alias, the run ends with the aggregator's error reporting the
\* available columns, and no output file is written.
C7_MissingIdentifierReported ==
    (Ended /\ \A n \in DOMAIN communes.cols : Lower(communes.cols[n]) \notin CodeAliases) =>
        /\ err = "ValueError"
        /\ "available_columns" \in console
        /\ ~outputFile.exists

\* C8: a failed download is attempted once, reported with the manual
\* download instructions, and ends the run before anything is loaded,
\* joined, aggregated or written; a boundary file present at the start is
\* neither fetched nor changed.
C8_DownloadFailureAborts ==
    /\ (fetches > 0 /\ communesFile \in {"absent", "partial"}) => "download_error" \in console
    /\ "download_error" \in console =>
          /\ pc = "aborted"
          /\ ~ENABLED Next
          /\ fetches = 1
          /\ "manual_download" \in console
          /\ communes = NoFrame /\ stops = <<>> /\ stops_gdf = <<>>
          /\ joined = <<>> /\ n_unmatched = 0 - 1 /\ result = <<>>
          /\ ~outputFile.exists
    /\ initialFile => fetches = 0 /\ communesFile = "original" /\ chunks = 0

\* a download that failed while the chunks were streamed
C8_Witness ==
    /\ pc = "aborted"
    /\ ~initialFile
    /\ communesFile = "partial"
    /\ chunks = 1

\* C9: the merge of spatial_join leaves every stop that phase 1 matched by
\* containment with the same rows, carrying the same commune attributes.
C9_MergeKeepsPhase1Matches ==
    [][(pc = "nearest" /\ pc' = "count") =>
          \A s \in DOMAIN stops_gdf :
              MatchedWithin(stops_gdf[s]) =>
                  RowsOf(joined', stops_gdf[s]) = RowsOf(joined, stops_gdf[s])]_vars

\* C10: once a response whose header reports nombre = 0 has been received,
\* get_with_cursor issues no further request and returns, the file holding
\* the header line and then each fetched page's records once, in order.
C10_StopsAtEmptyPage ==
    [][(cpc = "loop" /\ response.header.nombre = 0) =>
          /\ cpc' = "returned"
          /\ requests' = requests
          /\ data3' = <<HeaderLine>> \o Flatten([k \in DOMAIN api |-> transformation(api[k], FALSE)])]_vars

====
